---- MODULE Spec2Model ----
(***************************************************************************)
(* mtime-rewind: rewind the mtime of files whose mtime advanced since the  *)
(* last execution without a content change (src/src/main.rs).              *)
(*                                                                         *)
(* The model is one root directory holding a small tree of regular files,  *)
(* cache markers and the state file .hashprint, an environment that edits  *)
(* the tree between executions, and the executions of main().              *)
(***************************************************************************)
EXTENDS Integers, Sequences, FiniteSets, TLC

\* ------------------------------------------------------------------ bounds
\* mtimes range over 1..MaxTime, the environment makes at most MaxEnvOps
\* changes to the tree, and a timestamp splits into whole seconds and
\* TicksPerSecond sub-second ticks.
MaxTime == 3
MaxEnvOps == 2
TicksPerSecond == 2

Times == 1..MaxTime
\* The contents a file can have.  The tool only ever compares digests for
\* equality, so two contents show every case.
Contents == {1, 2}

\* ------------------------------------------------------------- file names
\* A file name is a sequence of chunks; a name that starts with '.' has "."
\* as its first chunk.  A path is a sequence of names (its components).
\* A name is a sequence of bytes, not always valid UTF-8: InvalidByte is a
\* chunk that no UTF-8 text holds (the byte FF).
InvalidByte == "0xFF"
CacheTagName == <<"CACHEDIR", ".", "TAG">>
HashprintName == <<".", "hashprint">>
NameA == <<"a">>
NameD == <<"d">>
NameS == <<"s">>
NameF == <<"f">>
NameH == <<".", "h">>
NameE == <<"e">>
NameHX == <<".", InvalidByte, "h">>
NameX == <<".", InvalidByte, "x">>

\* The directories that can be given as root: a plain name, and a hidden one
\* (the temporary directories of tests/main.rs are named .tmpXXXXXX).
Roots == { << <<"r">> >>, << <<".", "tmp">> >> }
\* The root recorded in a state file that was written for another directory.
OtherRoot == << <<"other">> >>

\* Path::join
Join(p, q) == p \o q

\* Paths relative to the root: directories, regular files, cache markers.
\*     a    d/CACHEDIR.TAG    d/s/f    .h/e    CACHEDIR.TAG    .hashprint
\* and, with names that start with '.' and are not valid UTF-8,
\*     .<FF>x    .<FF>h/e
RelDirs == { <<NameD>>, <<NameD, NameS>>, <<NameH>>, <<NameHX>> }
RelFiles == { <<NameA>>, <<NameD, NameS, NameF>>, <<NameH, NameE>> }
RelMarkers == { <<CacheTagName>>, <<NameD, CacheTagName>> }
RelOdd == { <<NameX>>, <<NameHX, NameE>> }
\* The files the environment rewrites and touches.  The file below the hidden
\* directory is only created and removed: no step of the tool reads its
\* content or mtime.
RelWritten == { <<NameA>>, <<NameD, NameS, NameF>> }

DirPaths(r) == { Join(r, q) : q \in RelDirs }
FilePaths(r) == { Join(r, q) : q \in RelFiles }
WrittenPaths(r) == { Join(r, q) : q \in RelWritten }
MarkerPaths(r) == { Join(r, q) : q \in RelMarkers }
OddPaths(r) == { Join(r, q) : q \in RelOdd }

\* A path that holds no file.
NoFile == [content |-> 0, mtime |-> 0]
\* The state file: absent, or bytes that do not decode, or (see serialize)
\* the bytes of a snapshot.
NoStateFile == [kind |-> "absent", root |-> <<>>, items |-> {}]
Garbage == [kind |-> "garbage", root |-> <<>>, items |-> {}]
FileStates == [content : Contents, mtime : Times]
\* A cache marker as the environment creates it (its content and mtime play
\* no part in the marker test, which only asks whether the path exists).
MarkerFile == [content |-> 1, mtime |-> 1]

\* -------------------------------------------------------------- HashMap
EmptyMap == [k \in {} |-> 0]
Insert(m, k, v) == [x \in DOMAIN m \cup {k} |-> IF x = k THEN v ELSE m[x]]
\* HashMap::extend: the entries of e replace those of m with the same key.
Extend(m, e) == [x \in DOMAIN m \cup DOMAIN e |-> IF x \in DOMAIN e THEN e[x] ELSE m[x]]

NoData == [data |-> EmptyMap, root |-> <<>>]

\* ------------------------------------------------------------ Entry
\* sha2::Sha256 of a file's bytes: a digest, taken to be collision free.
Sha256(content) == <<"sha256", content>>

\* std::fs::metadata(..).modified(): the mtime the file system holds.
Modified(file) == file.mtime

\* Entry::from_file(filename), for a file that can be opened and read.
\* (a from_file that records a fixed time instead of the file's mtime)
from_file_fixed_time(fsys, filename) ==
    [hash |-> Sha256(fsys[filename].content), mtime |-> 1]
from_file(fsys, filename) ==
    [hash |-> Sha256(fsys[filename].content), mtime |-> Modified(fsys[filename])]

\* ------------------------------------------------------- the directory walk
hashes_file(r) == Join(r, <<HashprintName>>)

\* Path::exists
Exists(r, fsys, hp, p) ==
    \/ p = r
    \/ p \in DirPaths(r)
    \/ p \in DOMAIN fsys /\ fsys[p] # NoFile
    \/ p = hashes_file(r) /\ hp # NoStateFile

\* Path::file_name
file_name(p) == p[Len(p)]
\* OsStr::to_str is Some: the name is valid UTF-8.
to_str(name) == \A i \in 1..Len(name) : name[i] # InvalidByte
\* str::starts_with('.')
starts_with_dot(name) == Len(name) > 0 /\ name[1] = "."

\* The closure given to filter_entry: an entry is kept unless it holds a
\* CACHEDIR.TAG or its name is valid UTF-8 and starts with '.'
\* (`.and_then(|f| f.to_str()).map_or(false, ..)`: a name that is not valid
\* UTF-8 is kept, whatever its first byte).
filter_entry(r, fsys, hp, e) ==
    /\ ~ Exists(r, fsys, hp, Join(e, <<CacheTagName>>))
    /\ ~ (to_str(file_name(e)) /\ starts_with_dot(file_name(e)))

\* Everything below the root that exists: the entries a full walk could yield.
AllEntries(r, fsys, hp) ==
    { p \in DirPaths(r) \cup DOMAIN fsys \cup {hashes_file(r)} :
        Exists(r, fsys, hp, p) /\ p # r }

\* WalkDir::new(root).min_depth(1).into_iter().filter_entry(..): an entry is
\* yielded when the closure keeps it and every directory between the root
\* and it; the closure is never asked about the root itself (depth 0).
\* (a walk that asks the closure about the root as well)
WalkDir_filter_root(r, fsys, hp) ==
    { p \in AllEntries(r, fsys, hp) :
        \A k \in Len(r)..Len(p) : filter_entry(r, fsys, hp, SubSeq(p, 1, k)) }
WalkDir(r, fsys, hp) ==
    { p \in AllEntries(r, fsys, hp) :
        \A k \in (Len(r) + 1)..Len(p) : filter_entry(r, fsys, hp, SubSeq(p, 1, k)) }

\* DirEntry::metadata().is_file()
is_file(r, fsys, hp, p) ==
    \/ p \in DOMAIN fsys /\ fsys[p] # NoFile
    \/ p = hashes_file(r) /\ hp # NoStateFile

\* The files that Data::compute hashes.
ScannedFiles(r, fsys, hp) == { p \in WalkDir(r, fsys, hp) : is_file(r, fsys, hp, p) }

\* Data::compute(root), when every file can be opened and read.
compute(r, fsys, hp) ==
    [data |-> [p \in ScannedFiles(r, fsys, hp) |-> from_file(fsys, p)],
     root |-> r]

\* The same scan when the walk meets errors.  bad holds the entries for which
\* the walk reports an error: a directory that cannot be listed, the root
\* among them (its Err item is dropped by `filter_map(|e| e.ok())`, main.rs
\* 59, and nothing below it is visited) or an entry whose metadata() fails
\* (`map_or(false, ..)`, main.rs 60, then takes it for no file).
IsAncestor(d, p) == Len(d) < Len(p) /\ SubSeq(p, 1, Len(d)) = d
ScannedFilesSkipping(r, fsys, hp, bad) ==
    { p \in ScannedFiles(r, fsys, hp) :
        p \notin bad /\ \A d \in bad : ~ IsAncestor(d, p) }
compute_skipping(r, fsys, hp, bad) ==
    [data |-> [p \in ScannedFilesSkipping(r, fsys, hp, bad) |-> from_file(fsys, p)],
     root |-> r]

\* -------------------------------------------------------- the state file
\* bincode::serialize(&Data): the root, then one item per entry of the map
\* (path, hash, mtime).  The order of the items (the HashMap's iteration
\* order) is left out: deserializing does not depend on it.
serialize(d) ==
    [kind |-> "bincode",
     root |-> d.root,
     items |-> { <<p, d.data[p].hash, d.data[p].mtime>> : p \in DOMAIN d.data }]

\* bincode::serialize(&Data) is Ok: serde serializes a PathBuf through
\* Path::to_str and fails on a path that is not valid UTF-8.
path_to_str(p) == \A k \in 1..Len(p) : to_str(p[k])
serialize_ok(d) == path_to_str(d.root) /\ \A p \in DOMAIN d.data : path_to_str(p)

\* bincode::deserialize, for bytes that decode.
ItemOf(bytes, p) == CHOOSE i \in bytes.items : i[1] = p
deserialize(bytes) ==
    [data |-> [p \in { i[1] : i \in bytes.items } |->
                 [hash |-> ItemOf(bytes, p)[2], mtime |-> ItemOf(bytes, p)[3]]],
     root |-> bytes.root]

\* Data::load_cached(root) on a state file that was read: the snapshot, or
\* the error that ends the run.
\* (a load_cached without the anyhow::ensure! on the root)
load_cached_unchecked(r, bytes) ==
    IF bytes = Garbage
    THEN [err |-> "deserialize", cached |-> NoData]
    ELSE [err |-> "none", cached |-> deserialize(bytes)]
load_cached(r, bytes) ==
    IF bytes = Garbage
    THEN [err |-> "deserialize", cached |-> NoData]
    ELSE IF deserialize(bytes).root # r
         THEN [err |-> "mismatch", cached |-> NoData]
         ELSE [err |-> "none", cached |-> deserialize(bytes)]

\* ------------------------------------------------------- rewinding mtimes
\* filetime::FileTime::from_system_time: whole seconds and the sub-second part.
\* (a conversion that drops the sub-second part)
from_system_time_seconds(t) ==
    [seconds |-> t \div TicksPerSecond, nanos |-> 0]
from_system_time(t) ==
    [seconds |-> t \div TicksPerSecond, nanos |-> t % TicksPerSecond]

\* filetime::set_file_mtime(path, ft): only the mtime of the file changes.
\* (a set_file_mtime that reports success and writes nothing)
set_file_mtime_noop(fsys, f, ft) == fsys
set_file_mtime(fsys, f, ft) ==
    [fsys EXCEPT ![f] = [content |-> fsys[f].content,
                         mtime |-> ft.seconds * TicksPerSecond + ft.nanos]]

\* One iteration of `for (f, stored) in stored.data` (main.rs 111-137).  acc
\* is the state of the loop: the file system, the edited map and whether a
\* set_file_mtime call has failed (the `?` then leaves main).  fails tells
\* whether a set_file_mtime call made in this iteration fails.
\* (a loop body that rewinds whenever the mtime advanced, whatever the hash)
LoopBody_ignore_hash(acc, f, liveData, storedData, dryflag, fails) ==
    IF f \in DOMAIN liveData /\ liveData[f].mtime > storedData[f].mtime /\ ~ dryflag
    THEN IF fails
         THEN [acc EXCEPT !.failed = TRUE]
         ELSE [fs |-> set_file_mtime(acc.fs, f, from_system_time(storedData[f].mtime)),
               edited |-> Insert(acc.edited, f, storedData[f]),
               failed |-> FALSE]
    ELSE acc
\* (a loop body that does not look at args.dry)
LoopBody_ignore_dry(acc, f, liveData, storedData, dryflag, fails) ==
    IF /\ f \in DOMAIN liveData
       /\ liveData[f].mtime > storedData[f].mtime
       /\ liveData[f].hash = storedData[f].hash
    THEN IF fails
         THEN [acc EXCEPT !.failed = TRUE]
         ELSE [fs |-> set_file_mtime(acc.fs, f, from_system_time(storedData[f].mtime)),
               edited |-> Insert(acc.edited, f, storedData[f]),
               failed |-> FALSE]
    ELSE acc
\* (a loop body that carries the stored entry of a vanished file over)
LoopBody_keep_deleted(acc, f, liveData, storedData, dryflag, fails) ==
    IF f \in DOMAIN liveData
    THEN IF /\ liveData[f].mtime > storedData[f].mtime
            /\ liveData[f].hash = storedData[f].hash
            /\ ~ dryflag
         THEN IF fails
              THEN [acc EXCEPT !.failed = TRUE]
              ELSE [fs |-> set_file_mtime(acc.fs, f, from_system_time(storedData[f].mtime)),
                    edited |-> Insert(acc.edited, f, storedData[f]),
                    failed |-> FALSE]
         ELSE acc
    ELSE [acc EXCEPT !.edited = Insert(acc.edited, f, storedData[f])]
\* (a loop body that undoes the rewinds made so far when a call fails)
LoopBody_rollback(acc, f, liveData, storedData, dryflag, fails) ==
    IF /\ f \in DOMAIN liveData
       /\ liveData[f].mtime > storedData[f].mtime
       /\ liveData[f].hash = storedData[f].hash
       /\ ~ dryflag
    THEN IF fails
         THEN [fs |-> [p \in DOMAIN acc.fs |->
                         IF p \in DOMAIN acc.edited
                         THEN [content |-> acc.fs[p].content, mtime |-> liveData[p].mtime]
                         ELSE acc.fs[p]],
               edited |-> acc.edited,
               failed |-> TRUE]
         ELSE [fs |-> set_file_mtime(acc.fs, f, from_system_time(storedData[f].mtime)),
               edited |-> Insert(acc.edited, f, storedData[f]),
               failed |-> FALSE]
    ELSE acc
\* (a loop body that sets the stored mtime whenever the two mtimes differ)
LoopBody_any_difference(acc, f, liveData, storedData, dryflag, fails) ==
    IF /\ f \in DOMAIN liveData
       /\ liveData[f].mtime # storedData[f].mtime
       /\ liveData[f].hash = storedData[f].hash
       /\ ~ dryflag
    THEN IF fails
         THEN [acc EXCEPT !.failed = TRUE]
         ELSE [fs |-> set_file_mtime(acc.fs, f, from_system_time(storedData[f].mtime)),
               edited |-> Insert(acc.edited, f, storedData[f]),
               failed |-> FALSE]
    ELSE acc
LoopBody(acc, f, liveData, storedData, dryflag, fails) ==
    IF f \in DOMAIN liveData
    THEN IF liveData[f].mtime > storedData[f].mtime
         THEN IF liveData[f].hash # storedData[f].hash
              THEN acc
              ELSE IF dryflag
                   THEN acc
                   ELSE IF fails
                        THEN [acc EXCEPT !.failed = TRUE]
                        ELSE [fs |-> set_file_mtime(acc.fs, f,
                                        from_system_time(storedData[f].mtime)),
                              edited |-> Insert(acc.edited, f, storedData[f]),
                              failed |-> FALSE]
         ELSE acc
    ELSE acc

\* The loop over stored.data in the iteration order `order`; failAt is the
\* position whose set_file_mtime call fails (0: none does).
RECURSIVE Loop(_, _, _, _, _, _, _)
Loop(acc, order, i, liveData, storedData, dryflag, failAt) ==
    IF i > Len(order) \/ acc.failed
    THEN acc
    ELSE Loop(LoopBody(acc, order[i], liveData, storedData, dryflag, i = failAt),
              order, i + 1, liveData, storedData, dryflag, failAt)

\* The iteration orders of a HashMap with the key set S.
Orders(S) ==
    { o \in [1..Cardinality(S) -> S] : \A i, j \in 1..Cardinality(S) : o[i] = o[j] => i = j }

\* `live.data.extend(edited)` (main.rs 141-142).
\* (a merge that saves the live snapshot as computed)
Merge_live_only(liveData, editedData) == liveData
Merge(liveData, editedData) == Extend(liveData, editedData)

\* ------------------------------------------------------------------ state
\* No aborted run is remembered.
NoCrash == [start |-> EmptyMap, hp |-> NoStateFile, left |-> EmptyMap, valid |-> FALSE]

VARIABLES
    root,       \* the directory given as args.root
    fs,         \* path -> NoFile or [content, mtime]: the files below the root
    hashprint,  \* the bytes of <root>/.hashprint, or NoStateFile
    envOps,     \* how many changes the environment has made
    pc,         \* "idle", "computed" (main.rs 101 done), "done", "failed"
    dry,        \* args.dry of the execution under way
    live,       \* Data::compute's result (main.rs 101)
    stored,     \* Data::load_cached's result (main.rs 108)
    edited,     \* the edited map (main.rs 110)
    err,        \* what made the execution fail
    fs0,        \* the files as they were when the execution started
    hp0,        \* the state file as it was when the execution started
    prevRun,    \* "ok" when the last thing that happened in the root was an
                \* execution that succeeded and was not dry, else "none"
    rec,        \* history, kept by SpecTouchEdit only: path -> the mtimes
                \* the file had at the first scan of each of its hashes
    crash       \* history, kept by SpecRecovery only: the files and the state
                \* file that the last run aborted in its loop started from,
                \* and the files it left

vars == <<root, fs, hashprint, envOps, pc, dry, live, stored, edited, err,
          fs0, hp0, prevRun, rec, crash>>

TypeOK ==
    /\ root \in Roots
    /\ DOMAIN fs = FilePaths(root) \cup MarkerPaths(root) \cup OddPaths(root)
    /\ \A p \in DOMAIN fs : fs[p] = NoFile \/ fs[p] \in FileStates
    /\ envOps \in 0..MaxEnvOps
    /\ pc \in {"idle", "computed", "done", "failed"}
    /\ dry \in BOOLEAN
    /\ err \in {"none", "io", "deserialize", "mismatch", "mtime", "save"}
    /\ prevRun \in {"none", "ok"}

Init ==
    /\ root \in Roots
    /\ fs = [p \in FilePaths(root) \cup MarkerPaths(root) \cup OddPaths(root) |->
                IF p \in FilePaths(root) THEN [content |-> 1, mtime |-> 1] ELSE NoFile]
    /\ hashprint = NoStateFile
    /\ envOps = 0
    /\ pc = "idle"
    /\ dry = FALSE
    /\ live = NoData
    /\ stored = NoData
    /\ edited = EmptyMap
    /\ err = "none"
    /\ fs0 = EmptyMap
    /\ hp0 = NoStateFile
    /\ prevRun = "none"
    /\ rec = EmptyMap
    /\ crash = NoCrash

\* ------------------------------------------------------------ environment
\* Between executions the environment writes, touches, creates and removes
\* files (the tool assumes it is alone in the root while it runs).
EnvStep ==
    /\ pc = "idle"
    /\ envOps < MaxEnvOps
    /\ envOps' = envOps + 1
    /\ prevRun' = "none"
    /\ UNCHANGED <<root, pc, dry, live, stored, edited, err, fs0, hp0, rec, crash>>

\* Write or touch a regular file: any content, any mtime.
WriteFile(p, c, t) ==
    /\ EnvStep
    /\ p \in WrittenPaths(root)
    /\ fs[p] # [content |-> c, mtime |-> t]
    /\ fs' = [fs EXCEPT ![p] = [content |-> c, mtime |-> t]]
    /\ UNCHANGED hashprint

RemoveFile(p) ==
    /\ EnvStep
    /\ p \in DOMAIN fs
    /\ fs[p] # NoFile
    /\ fs' = [fs EXCEPT ![p] = NoFile]
    /\ UNCHANGED hashprint

CreateFile(p) ==
    /\ EnvStep
    /\ p \in DOMAIN fs \ WrittenPaths(root)
    /\ fs[p] = NoFile
    /\ fs' = [fs EXCEPT ![p] = MarkerFile]
    /\ UNCHANGED hashprint

\* The state file of a copy of this tree kept under another root, as left
\* there by the tool and carried over with the files.
Rebase(p, r, r2) == Join(r2, SubSeq(p, Len(r) + 1, Len(p)))
ForeignState(r, fsys, hp) ==
    serialize([data |-> [q \in { Rebase(p, r, OtherRoot) :
                                    p \in { x \in ScannedFiles(r, fsys, hp) : path_to_str(x) } } |->
                           from_file(fsys, Rebase(q, OtherRoot, r))],
               root |-> OtherRoot])

PlantForeignState ==
    /\ EnvStep
    /\ hashprint # ForeignState(root, fs, hashprint)
    /\ hashprint' = ForeignState(root, fs, hashprint)
    /\ UNCHANGED fs

CorruptState ==
    /\ EnvStep
    /\ hashprint # Garbage
    /\ hashprint' = Garbage
    /\ UNCHANGED fs

RemoveState ==
    /\ EnvStep
    /\ hashprint # NoStateFile
    /\ hashprint' = NoStateFile
    /\ UNCHANGED fs

\* ------------------------------------------------------------------- main
\* main.rs 99-101: the flags are parsed and the live snapshot is computed.
ComputeOk(d) ==
    /\ pc = "idle"
    /\ dry' = d
    /\ fs0' = fs
    /\ hp0' = hashprint
    /\ live' = compute(root, fs, hashprint)
    /\ pc' = "computed"
    /\ UNCHANGED <<root, fs, hashprint, envOps, stored, edited, err, prevRun, rec, crash>>

\* main.rs 59-60, 101: the walk meets errors on the entries in bad, skips
\* them, and compute returns the snapshot of the rest.
ComputeSkip(d, bad) ==
    /\ pc = "idle"
    /\ bad # {}
    /\ bad \subseteq WalkDir(root, fs, hashprint) \cup {root}
    /\ dry' = d
    /\ fs0' = fs
    /\ hp0' = hashprint
    /\ live' = compute_skipping(root, fs, hashprint, bad)
    /\ pc' = "computed"
    /\ UNCHANGED <<root, fs, hashprint, envOps, stored, edited, err, prevRun, rec, crash>>

\* main.rs 65: Entry::from_file fails on some file and `?` leaves main.
ComputeErr(d) ==
    /\ pc = "idle"
    /\ ScannedFiles(root, fs, hashprint) # {}
    /\ dry' = d
    /\ fs0' = fs
    /\ hp0' = hashprint
    /\ pc' = "failed"
    /\ err' = "io"
    /\ UNCHANGED <<root, fs, hashprint, envOps, live, stored, edited, prevRun, rec, crash>>

\* main.rs 103-105: there is no state file, the live snapshot is saved.
\* When bincode::serialize fails (main.rs 92) nothing is written and `?`
\* leaves main.
FirstRun ==
    /\ pc = "computed"
    /\ ~ Exists(root, fs, hashprint, hashes_file(root))
    /\ IF serialize_ok(live)
       THEN /\ hashprint' = serialize(live)
            /\ pc' = "done"
            /\ UNCHANGED err
       ELSE /\ pc' = "failed"
            /\ err' = "save"
            /\ UNCHANGED hashprint
    /\ UNCHANGED <<root, fs, envOps, dry, live, stored, edited, fs0, hp0, prevRun, rec, crash>>

\* Data::save fails (main.rs 92): std::fs::write either could not create the
\* file or left an incomplete one.
FirstRunSaveErr ==
    /\ pc = "computed"
    /\ ~ Exists(root, fs, hashprint, hashes_file(root))
    /\ serialize_ok(live)
    /\ hashprint' \in {hashprint, Garbage}
    /\ pc' = "failed"
    /\ err' = "save"
    /\ UNCHANGED <<root, fs, envOps, dry, live, stored, edited, fs0, hp0, prevRun, rec, crash>>

\* main.rs 108: load_cached fails (the file cannot be read, does not decode,
\* or was written for another root) and `?` leaves main.
LoadErr ==
    /\ pc = "computed"
    /\ Exists(root, fs, hashprint, hashes_file(root))
    /\ \/ err' = "io"
       \/ /\ load_cached(root, hashprint).err # "none"
          /\ err' = load_cached(root, hashprint).err
    /\ pc' = "failed"
    /\ UNCHANGED <<root, fs, hashprint, envOps, dry, live, stored, edited, fs0, hp0, prevRun, rec, crash>>

\* main.rs 106-147: the state is loaded, the loop runs over stored.data in
\* some order, and unless it failed or the run is dry the merged snapshot is
\* saved.  Data::save fails when the snapshot does not serialize (nothing is
\* written then); saveFails tells whether its std::fs::write fails.
Restore(order, failAt, saveFails) ==
    /\ pc = "computed"
    /\ Exists(root, fs, hashprint, hashes_file(root))
    /\ load_cached(root, hashprint).err = "none"
    /\ LET cached == load_cached(root, hashprint).cached
           acc == Loop([fs |-> fs, edited |-> EmptyMap, failed |-> FALSE],
                       order, 1, live.data, cached.data, dry, failAt)
       IN  /\ order \in Orders(DOMAIN cached.data)
           /\ stored' = cached
           /\ fs' = acc.fs
           /\ edited' = acc.edited
           /\ IF acc.failed
              THEN /\ pc' = "failed"
                   /\ err' = "mtime"
                   /\ UNCHANGED hashprint
              ELSE IF dry
                   THEN /\ pc' = "done"
                        /\ UNCHANGED <<hashprint, err>>
                   ELSE IF ~ serialize_ok([data |-> Merge(live.data, acc.edited),
                                                  root |-> live.root])
                        THEN /\ pc' = "failed"
                             /\ err' = "save"
                             /\ UNCHANGED hashprint
                   ELSE IF saveFails
                        THEN /\ pc' = "failed"
                             /\ err' = "save"
                             /\ hashprint' \in {hashprint, Garbage}
                        ELSE /\ pc' = "done"
                             /\ hashprint' = serialize([data |-> Merge(live.data, acc.edited),
                                                        root |-> live.root])
                             /\ UNCHANGED err
    /\ UNCHANGED <<root, envOps, dry, live, fs0, hp0, prevRun, rec, crash>>

\* The process ends; what it held in memory is gone.
Exit ==
    /\ pc \in {"done", "failed"}
    /\ pc' = "idle"
    /\ prevRun' = IF pc = "done" /\ ~ dry THEN "ok" ELSE "none"
    /\ live' = NoData
    /\ stored' = NoData
    /\ edited' = EmptyMap
    /\ err' = "none"
    /\ fs0' = EmptyMap
    /\ hp0' = NoStateFile
    /\ dry' = FALSE
    /\ UNCHANGED <<root, fs, hashprint, envOps, rec, crash>>

Next ==
    \/ \E p \in DOMAIN fs, c \in Contents, t \in Times : WriteFile(p, c, t)
    \/ \E p \in DOMAIN fs : RemoveFile(p)
    \/ \E p \in DOMAIN fs : CreateFile(p)
    \/ PlantForeignState
    \/ CorruptState
    \/ RemoveState
    \/ \E d \in BOOLEAN : ComputeOk(d)
    \/ \E d \in BOOLEAN : ComputeErr(d)
    \/ FirstRun
    \/ FirstRunSaveErr
    \/ LoadErr
    \/ \E order \in Orders(DOMAIN load_cached(root, hashprint).cached.data) :
          \E failAt \in 0..Len(order), saveFails \in BOOLEAN :
            Restore(order, failAt, saveFails)
    \/ Exit

Spec == Init /\ [][Next]_vars

\* The executions when the walk of the tree can meet errors as well, on any
\* set of entries and on the root.  The state file is left to the tool here:
\* the environment only changes files, and reading and std::fs::write of the
\* state file do not fail.
NextWalkErrors ==
    \/ \E p \in DOMAIN fs, c \in Contents, t \in Times : WriteFile(p, c, t)
    \/ \E p \in DOMAIN fs : RemoveFile(p)
    \/ \E p \in DOMAIN fs : CreateFile(p)
    \/ \E d \in BOOLEAN : ComputeOk(d)
    \/ \E d \in BOOLEAN : ComputeErr(d)
    \/ \E d \in BOOLEAN : \E bad \in SUBSET (WalkDir(root, fs, hashprint) \cup {root}) :
          ComputeSkip(d, bad)
    \/ FirstRun
    \/ \E order \in Orders(DOMAIN load_cached(root, hashprint).cached.data) :
          \E failAt \in 0..Len(order) : Restore(order, failAt, FALSE)
    \/ Exit

SpecWalkErrors == Init /\ [][NextWalkErrors]_vars

\* Sequences of successful runs that are not dry, with touches and edits
\* between them.  A touch or an edit moves the mtime of an existing file
\* strictly forward; an edit also changes the content.
TouchOrEdit(p, c, t) ==
    /\ p \in WrittenPaths(root)
    /\ fs[p] # NoFile
    /\ t > fs[p].mtime
    /\ WriteFile(p, c, t)

\* The history of the scans, for each scanned file: `first` gives for every
\* hash that a scan has found for the file the mtime the file had at the
\* first scan that found it; `series` is the hash of this scan with the mtime
\* the file had at the first scan of the unbroken series of scans, ending
\* with this one, that found this hash.
Recorded(h, fsys, files) ==
    [p \in files |->
        LET hash == Sha256(fsys[p].content)
            now == [hash |-> hash, mtime |-> fsys[p].mtime]
        IN  IF p \in DOMAIN h
            THEN [first |-> IF hash \in DOMAIN h[p].first
                            THEN h[p].first
                            ELSE Insert(h[p].first, hash, now.mtime),
                  series |-> IF h[p].series.hash = hash THEN h[p].series ELSE now]
            ELSE [first |-> Insert(EmptyMap, hash, now.mtime),
                  series |-> now]]

\* main.rs 99-101 of a run without --dry, with the history of the scans.
ComputeRecording ==
    /\ pc = "idle"
    /\ dry' = FALSE
    /\ fs0' = fs
    /\ hp0' = hashprint
    /\ live' = compute(root, fs, hashprint)
    /\ rec' = Recorded(rec, fs, ScannedFiles(root, fs, hashprint))
    /\ pc' = "computed"
    /\ UNCHANGED <<root, fs, hashprint, envOps, stored, edited, err, prevRun, crash>>

NextTouchEdit ==
    \/ \E p \in DOMAIN fs, c \in Contents, t \in Times : TouchOrEdit(p, c, t)
    \/ ComputeRecording
    \/ FirstRun
    \/ \E order \in Orders(DOMAIN load_cached(root, hashprint).cached.data) :
          Restore(order, 0, FALSE)
    \/ Exit

SpecTouchEdit == Init /\ [][NextTouchEdit]_vars

\* Runs that abort in the loop, followed by further runs.  The process of a
\* run that a failing set_file_mtime aborted ends (main.rs 131, `?`); what
\* it started from and what it left is remembered.
ExitAborted ==
    /\ pc = "failed"
    /\ err = "mtime"
    /\ ~ dry
    /\ crash' = [start |-> fs0, hp |-> hp0, left |-> fs, valid |-> TRUE]
    /\ pc' = "idle"
    /\ prevRun' = "none"
    /\ live' = NoData
    /\ stored' = NoData
    /\ edited' = EmptyMap
    /\ err' = "none"
    /\ fs0' = EmptyMap
    /\ hp0' = NoStateFile
    /\ dry' = FALSE
    /\ UNCHANGED <<root, fs, hashprint, envOps, rec>>

\* main.rs 101-146 in one piece: what a run without --dry and without an
\* error leaves, from the files fsys and the loadable state file hp, when the
\* loop visits the stored paths in the order `order`.
Uninterrupted(r, fsys, hp, order) ==
    LET liveData == compute(r, fsys, hp).data
        cached == load_cached(r, hp).cached
        acc == Loop([fs |-> fsys, edited |-> EmptyMap, failed |-> FALSE],
                    order, 1, liveData, cached.data, FALSE, 0)
    IN  [fs |-> acc.fs,
         hp |-> serialize([data |-> Merge(liveData, acc.edited), root |-> r])]

NextRecovery ==
    \/ \E p \in DOMAIN fs, c \in Contents, t \in Times : WriteFile(p, c, t)
    \/ \E p \in DOMAIN fs : RemoveFile(p)
    \/ \E p \in DOMAIN fs : CreateFile(p)
    \/ \E d \in BOOLEAN : ComputeOk(d)
    \/ FirstRun
    \/ \E order \in Orders(DOMAIN load_cached(root, hashprint).cached.data) :
          \E failAt \in 0..Len(order) : Restore(order, failAt, FALSE)
    \/ Exit
    \/ ExitAborted

SpecRecovery == Init /\ [][NextRecovery]_vars

\* main.rs 139: the count that `info!("{} files rewinded", edited.len())`
\* prints at the end of the restoring branch.
files_rewinded == Cardinality(DOMAIN edited)

\* ================================================================ properties
\* What an execution started from and what it left behind.
Ended == pc \in {"done", "failed"}
Succeeded == pc = "done"
HadState == hp0 # NoStateFile
\* The state file found at the start decodes and is for this root.
Loadable == hp0.kind = "bincode" /\ deserialize(hp0).root = root
Before == deserialize(hp0)
Persisted == deserialize(hashprint)

\* p was a file when the execution started / is one now.
WasFile(p) == p \in DOMAIN fs0 /\ fs0[p] # NoFile
\* The entry a scan of p at the start of the execution gives.
EntryAtStart(p) == [hash |-> Sha256(fs0[p].content), mtime |-> fs0[p].mtime]
\* p is recorded in the stored snapshot, and at the start of the execution
\* its mtime was later than recorded ...
Advanced(p) ==
    /\ WasFile(p)
    /\ p \in DOMAIN Before.data
    /\ fs0[p].mtime > Before.data[p].mtime
\* ... with the recorded content (a touch) or with another content (an edit).
TouchedOnly(p) == Advanced(p) /\ Sha256(fs0[p].content) = Before.data[p].hash
GenuineEdit(p) == Advanced(p) /\ Sha256(fs0[p].content) # Before.data[p].hash

\* A directory strictly inside the root with a CACHEDIR.TAG in it or with a
\* name that starts with '.'.
IsPrefix(d, p) == Len(d) <= Len(p) /\ SubSeq(p, 1, Len(d)) = d
CacheDir(d) == Join(d, <<CacheTagName>>) \in DOMAIN fs0 /\ fs0[Join(d, <<CacheTagName>>)] # NoFile
HiddenDir(d) == d[Len(d)][1] = "."
PrunedDir(d) == d \in DirPaths(root) /\ (CacheDir(d) \/ HiddenDir(d))
\* p lies in a pruned directory or below one.
InPrunedDir(p) == \E d \in DirPaths(root) : PrunedDir(d) /\ IsPrefix(d, p) /\ d # p

\* ---- C1
\* C1 as stated: after a successful non-dry run every file recorded in the
\* stored snapshot as (H, T0) whose mtime had advanced with its hash still H
\* has mtime T0 again, and the saved state records (H, T0) for it.
C1_AsStated ==
    (Succeeded /\ ~ dry /\ HadState) =>
        \A p \in DOMAIN fs :
            TouchedOnly(p) =>
                /\ fs[p].mtime = Before.data[p].mtime
                /\ p \in DOMAIN Persisted.data
                /\ Persisted.data[p] = Before.data[p]

\* C1 (amended): after a successful non-dry run every file that is in the
\* live snapshot (not below a hidden or cache-marked directory) and that the
\* stored snapshot records as (H, T0), whose mtime had advanced to T1 > T0
\* with its hash still H, has mtime T0 again, and the saved state records
\* (H, T0) for it, not (H, T1).
C1_RewindOnTouch ==
    (Succeeded /\ ~ dry /\ HadState) =>
        \A p \in DOMAIN fs :
            (TouchedOnly(p) /\ ~ InPrunedDir(p)) =>
                /\ fs[p].mtime = Before.data[p].mtime
                /\ fs[p].content = fs0[p].content
                /\ p \in DOMAIN Persisted.data
                /\ Persisted.data[p] = Before.data[p]
                /\ Persisted.data[p].mtime < fs0[p].mtime

C1_Witness ==
    /\ Succeeded /\ ~ dry /\ HadState
    /\ \E p \in DOMAIN fs :
          /\ TouchedOnly(p) /\ ~ InPrunedDir(p)
          /\ fs0[p].mtime = MaxTime
          /\ fs[p].mtime < MaxTime

\* ---- C2
\* C2 as stated: after a successful non-dry run every file recorded as
\* (C0, T0) whose hash changed and whose mtime advanced to T1 > T0 still has
\* mtime T1 and the saved state records (C1, T1) for it.
C2_AsStated ==
    (Succeeded /\ ~ dry /\ HadState) =>
        \A p \in DOMAIN fs :
            GenuineEdit(p) =>
                /\ fs[p] = fs0[p]
                /\ p \in DOMAIN Persisted.data
                /\ Persisted.data[p] = EntryAtStart(p)

\* C2 (amended): after a successful non-dry run every file that is in the
\* live snapshot and that the stored snapshot records as (C0, T0), whose
\* hash changed to C1 # C0 and whose mtime advanced to T1 > T0, still has
\* mtime T1, and the saved state records (C1, T1) for it.
C2_NoRewindOnEdit ==
    (Succeeded /\ ~ dry /\ HadState) =>
        \A p \in DOMAIN fs :
            (GenuineEdit(p) /\ ~ InPrunedDir(p)) =>
                /\ fs[p] = fs0[p]
                /\ p \in DOMAIN Persisted.data
                /\ Persisted.data[p] = EntryAtStart(p)

C2_Witness ==
    /\ Succeeded /\ ~ dry /\ HadState
    /\ \E p \in DOMAIN fs :
          /\ GenuineEdit(p) /\ ~ InPrunedDir(p)
          /\ Persisted.data[p].hash # Before.data[p].hash

\* ---- C3
\* C3: when there is no state file, a successful non-dry run saves the live
\* snapshot as it was computed (the requested root, and one entry per
\* scanned regular file with the file's current hash and mtime) and changes
\* no file.
C3_FirstRun ==
    (Succeeded /\ ~ dry /\ ~ HadState) =>
        /\ hashprint.kind = "bincode"
        /\ Persisted = live
        /\ Persisted.root = root
        /\ DOMAIN Persisted.data = { p \in DOMAIN fs : fs[p] # NoFile /\ ~ InPrunedDir(p) }
        /\ \A p \in DOMAIN Persisted.data :
              Persisted.data[p] = [hash |-> Sha256(fs[p].content), mtime |-> fs[p].mtime]
        /\ fs = fs0
        /\ edited = EmptyMap

C3_Witness ==
    /\ Succeeded /\ ~ dry /\ ~ HadState
    /\ \E p, q \in DOMAIN Persisted.data : Persisted.data[p].mtime > Persisted.data[q].mtime

\* ---- C4
\* C4: a dry run that finds a state file changes no file (a file that meets
\* the rewind condition keeps its advanced mtime), leaves the bytes of the
\* state file as they were, and does not fail once the state is loaded:
\* neither a set_file_mtime nor a save is attempted.
C4_DryRunNoOp ==
    (Ended /\ dry /\ HadState) =>
        /\ fs = fs0
        /\ hashprint = hp0
        /\ edited = EmptyMap
        /\ err \notin {"mtime", "save"}
        /\ stored # NoData => Succeeded

C4_Witness ==
    /\ Succeeded /\ dry /\ HadState
    /\ \E p \in DOMAIN live.data :
          /\ TouchedOnly(p)
          /\ fs[p].mtime > stored.data[p].mtime

\* ---- C5
\* C5: a dry run leaves the state file exactly as it was, also when there
\* was none (it is still absent after the run).
C5_DryRunKeepsState ==
    (Ended /\ dry) => hashprint = hp0

\* ---- C6
\* C6: a successful non-dry run that directly follows a successful non-dry
\* run, with no change to the tree in between, leaves every mtime as the
\* first run left it, saves the same snapshot (root and entries) again, and
\* rewinds no file.
C6_Idempotent ==
    (Succeeded /\ ~ dry /\ prevRun = "ok") =>
        /\ fs = fs0
        /\ hashprint.kind = "bincode" /\ hp0.kind = "bincode"
        /\ Persisted.root = Before.root
        /\ Persisted.data = Before.data
        /\ edited = EmptyMap

\* The second of two runs is done, on a tree that the environment changed
\* before the first of them and whose files differ in mtime.
C6_Witness ==
    /\ Succeeded /\ ~ dry /\ prevRun = "ok" /\ HadState
    /\ envOps > 0
    /\ \E p, q \in DOMAIN Persisted.data : Persisted.data[p].mtime < Persisted.data[q].mtime

\* ---- C7
\* C7: no file in or below a directory (strictly inside the root) that holds
\* a CACHEDIR.TAG or whose name starts with '.' is an entry of the computed
\* snapshot, and no run changes the mtime of such a file, recorded in the
\* stored snapshot with an advanced mtime and the same hash or not.
C7_Pruning ==
    (pc # "idle") =>
        \A p \in DOMAIN fs :
            InPrunedDir(p) =>
                /\ p \notin DOMAIN live.data
                /\ p \notin DOMAIN edited
                /\ fs[p] = fs0[p]

\* ---- C8
\* C8: a path of the stored snapshot that is not in the live snapshot is
\* left alone: no mtime is set for it, the loop cannot fail on it (when no
\* stored path is live the run does not fail at a set_file_mtime), and after
\* a successful non-dry run the saved snapshot has no entry for it.
C8_Deletion ==
    (Ended /\ stored # NoData) =>
        /\ \A p \in DOMAIN stored.data \ DOMAIN live.data :
              /\ p \in DOMAIN fs => fs[p] = fs0[p]
              /\ p \notin DOMAIN edited
              /\ (Succeeded /\ ~ dry) => p \notin DOMAIN Persisted.data
        /\ (DOMAIN stored.data \cap DOMAIN live.data = {}) => err # "mtime"

C8_Witness ==
    /\ Succeeded /\ ~ dry
    /\ \E p \in DOMAIN stored.data :
          /\ p \in DOMAIN fs /\ fs0[p] = NoFile
          /\ p \notin DOMAIN live.data
    /\ DOMAIN Persisted.data # {}

\* ---- C9
\* C9: when the state file decodes to a snapshot recorded for another root,
\* the run fails (at load_cached, unless the scan already failed), no mtime
\* is changed and the state file is left as it was.
C9_RootMismatch ==
    (Ended /\ hp0.kind = "bincode" /\ Before.root # root) =>
        /\ pc = "failed"
        /\ err \in {"io", "mismatch"}
        /\ fs = fs0
        /\ hashprint = hp0
        /\ stored = NoData /\ edited = EmptyMap

C9_Witness ==
    /\ pc = "failed" /\ err = "mismatch" /\ ~ dry
    /\ Before.root = OtherRoot
    /\ Before.data # EmptyMap
    /\ live.data # EmptyMap

\* ---- C10
\* C10: across any run no file is created, removed or rewritten, and a file
\* whose mtime changed is in the stored and in the live snapshot, had a
\* later mtime than stored with the same hash, and now has the mtime the
\* stored snapshot records for it.
C10_Frame ==
    (pc # "idle") =>
        \A p \in DOMAIN fs :
            /\ fs[p].content = fs0[p].content
            /\ (fs[p] = NoFile) <=> (fs0[p] = NoFile)
            /\ fs[p].mtime # fs0[p].mtime =>
                  /\ Loadable
                  /\ p \in DOMAIN Before.data
                  /\ p \in DOMAIN live.data
                  /\ live.data[p].mtime > Before.data[p].mtime
                  /\ live.data[p].hash = Before.data[p].hash
                  /\ fs[p].mtime = Before.data[p].mtime

\* A run that failed after it had rewound one file and before another.
C10_Witness ==
    /\ pc = "failed" /\ err = "mtime"
    /\ \E p, q \in DOMAIN fs :
          /\ fs[p].mtime # fs0[p].mtime
          /\ TouchedOnly(q) /\ fs[q] = fs0[q] /\ q \in DOMAIN live.data

\* ---- C11
\* C11: after a successful non-dry run the saved snapshot and the files
\* agree: every rewound path is saved with its stored (pre-rewind) entry, and
\* every saved path is a file whose mtime on disk is the saved mtime and
\* whose content has the saved hash.
C11_StateMatchesFiles ==
    (Succeeded /\ ~ dry) =>
        /\ hashprint.kind = "bincode"
        /\ \A p \in DOMAIN edited :
              /\ p \in DOMAIN Persisted.data
              /\ Persisted.data[p] = Before.data[p]
        /\ \A p \in DOMAIN Persisted.data :
              /\ p \in DOMAIN fs /\ fs[p] # NoFile
              /\ Persisted.data[p].mtime = fs[p].mtime
              /\ Persisted.data[p].hash = Sha256(fs[p].content)

\* A run that rewound one file and left another, edited one, alone.
C11_Witness ==
    /\ Succeeded /\ ~ dry /\ HadState
    /\ \E p \in DOMAIN edited : fs[p].mtime < fs0[p].mtime
    /\ \E q \in DOMAIN Persisted.data : GenuineEdit(q)

\* ---- C12
\* C12: when a run fails at a set_file_mtime call, the files rewound before
\* the failure keep their rewound mtime, every other file (the one the call
\* failed on among them) is as it was before the run, and the bytes of the
\* state file are those found at the start: nothing is saved.
C12_AbortKeepsRewinds ==
    (pc = "failed" /\ err = "mtime") =>
        /\ hashprint = hp0
        /\ ~ dry
        /\ \A p \in DOMAIN edited :
              /\ TouchedOnly(p)
              /\ fs[p].mtime = Before.data[p].mtime
              /\ fs[p].mtime < fs0[p].mtime
        /\ \A p \in DOMAIN fs \ DOMAIN edited : fs[p] = fs0[p]
        /\ \E q \in DOMAIN live.data \ DOMAIN edited : TouchedOnly(q)

\* A run that failed after it had rewound one file.
C12_Witness ==
    /\ pc = "failed" /\ err = "mtime"
    /\ \E p \in DOMAIN edited : fs[p].mtime < fs0[p].mtime
    /\ Before.data # EmptyMap

\* ---- C13
\* C13: when a file of the unpruned part of the root cannot be opened, read
\* or stat-ed during the scan, compute fails and the run aborts with no state
\* file written and no mtime changed: compute never returns, and no run
\* saves, a snapshot that lacks a file of the unpruned part of the root.
C13_AsStated ==
    /\ (pc = "failed" /\ live = NoData) => (fs = fs0 /\ hashprint = hp0)
    /\ live # NoData => DOMAIN live.data = ScannedFiles(root, fs0, hp0)
    /\ (Succeeded /\ ~ dry) => DOMAIN Persisted.data = ScannedFiles(root, fs0, hp0)

\* ---- C14
\* C14 as stated: over successful runs that are not dry, with touches and
\* edits between them, at the end of every run the mtime on disk and the
\* persisted mtime of a file are the mtime the file had when its current
\* content was first recorded by a run.
C14_AsStated ==
    (Succeeded /\ ~ dry) =>
        /\ DOMAIN Persisted.data = DOMAIN rec
        /\ \A p \in DOMAIN rec :
              /\ fs[p].mtime = rec[p].first[Sha256(fs[p].content)]
              /\ Persisted.data[p].mtime = rec[p].first[Sha256(fs[p].content)]
              /\ Persisted.data[p].hash = Sha256(fs[p].content)

\* C14 (amended): over successful runs that are not dry, with touches and
\* edits between them, at the end of every run the mtime on disk and the
\* persisted mtime of a file are the mtime the file had at the first run of
\* the unbroken series of runs, ending with this one, that found its current
\* content: the recorded mtime does not drift forward under touches, and a
\* touch after a recorded edit is rewound to the mtime of the edit.  A file
\* whose content is back at a value recorded before another one keeps the
\* mtime it came back with, not the older one.
C14_RewindTarget ==
    (Succeeded /\ ~ dry) =>
        /\ DOMAIN Persisted.data = DOMAIN rec
        /\ \A p \in DOMAIN rec :
              /\ fs[p].mtime = rec[p].series.mtime
              /\ Persisted.data[p] = rec[p].series
              /\ rec[p].series.hash = Sha256(fs[p].content)
              /\ rec[p].series.mtime >= rec[p].first[rec[p].series.hash]

\* An edit was recorded with its mtime, later than the initial one; the file
\* was then touched, and the run has rewound it to the mtime of the edit.
C14_Witness ==
    /\ Succeeded /\ ~ dry
    /\ \E p \in DOMAIN rec :
          /\ rec[p].series.hash = Sha256(2)
          /\ rec[p].series.mtime > 1
          /\ fs0[p].mtime > rec[p].series.mtime
          /\ fs[p].mtime = rec[p].series.mtime
          /\ Persisted.data[p].mtime = rec[p].series.mtime

\* C15: after a successful run that is not dry and found stored state, the
\* persisted snapshot has the keys of the live snapshot, and every path that
\* was not rewound (new since the stored snapshot, or with a live mtime not
\* later than the stored one, or with another hash) is persisted with its
\* live entry and keeps the mtime it had on disk.
C15_NonRewoundKeepLive ==
    (Succeeded /\ ~ dry /\ HadState) =>
        /\ DOMAIN Persisted.data = DOMAIN live.data
        /\ \A p \in DOMAIN live.data :
              (\/ p \notin DOMAIN Before.data
               \/ live.data[p].mtime <= Before.data[p].mtime
               \/ live.data[p].hash # Before.data[p].hash) =>
                  /\ Persisted.data[p] = live.data[p]
                  /\ fs[p] = fs0[p]

\* One run that meets the three cases: a path with the stored mtime and
\* another hash or an earlier mtime, a path with a later mtime and another
\* hash, and the persisted snapshot differs from the stored one.
C15_Witness ==
    /\ Succeeded /\ ~ dry /\ HadState
    /\ \E p \in DOMAIN live.data \cap DOMAIN Before.data :
          /\ live.data[p].mtime <= Before.data[p].mtime
          /\ live.data[p] # Before.data[p]
          /\ Persisted.data[p] = live.data[p]
    /\ \E p \in DOMAIN live.data \cap DOMAIN Before.data :
          /\ live.data[p].mtime > Before.data[p].mtime
          /\ live.data[p].hash # Before.data[p].hash
          /\ Persisted.data[p] = live.data[p]

\* C16: no regular file below the root whose name starts with '.', the state
\* file .hashprint of the root among them, is an entry of a computed snapshot
\* or of a snapshot that a run saves, and a scan of the root yields the same
\* files whether or not the state file exists.
C16_HiddenNeverRecorded ==
    /\ live # NoData =>
          \A p \in DOMAIN live.data :
              p # hashes_file(root) /\ ~ starts_with_dot(file_name(p))
    /\ (Succeeded /\ (~ dry \/ ~ HadState)) =>
          \A p \in DOMAIN Persisted.data :
              p # hashes_file(root) /\ ~ starts_with_dot(file_name(p))
    /\ ScannedFiles(root, fs, hashprint) = ScannedFiles(root, fs, NoStateFile)

\* C17: a successful dry run that found stored state reports, as the count of
\* rewound files, the number of files that meet the rewind condition (a live
\* mtime later than the stored one and the same hash).
C17_DryRunCount ==
    (Succeeded /\ dry /\ HadState) =>
        files_rewinded =
            Cardinality({ p \in DOMAIN live.data \cap DOMAIN stored.data :
                            /\ live.data[p].mtime > stored.data[p].mtime
                            /\ live.data[p].hash = stored.data[p].hash })

\* The root itself meets a pruning rule: a dotted name, or a CACHEDIR.TAG in it.
RootLooksPruned == starts_with_dot(file_name(root)) \/ CacheDir(root)

\* C18: the pruning rules are not applied to the root: when the name of the
\* root starts with '.' or the root directly holds a CACHEDIR.TAG, every
\* regular file in it whose name does not start with '.' and that is not in
\* a pruned subdirectory is an entry of the computed snapshot, and such a file
\* touched without an edit is rewound by a successful run that is not dry.
C18_RootNotPruned ==
    /\ (live # NoData /\ RootLooksPruned) =>
          \A p \in DOMAIN fs0 :
              (WasFile(p) /\ ~ InPrunedDir(p) /\ ~ starts_with_dot(file_name(p))) =>
                  /\ p \in DOMAIN live.data
                  /\ live.data[p] = EntryAtStart(p)
    /\ (Succeeded /\ ~ dry /\ HadState /\ RootLooksPruned) =>
          \A p \in DOMAIN fs0 :
              (TouchedOnly(p) /\ ~ InPrunedDir(p)) =>
                  /\ fs[p].mtime = Before.data[p].mtime
                  /\ Persisted.data[p] = Before.data[p]

\* A root with a dotted name that holds a CACHEDIR.TAG, and a touched file in
\* it that the run has rewound.
C18_Witness ==
    /\ Succeeded /\ ~ dry /\ HadState
    /\ starts_with_dot(file_name(root))
    /\ CacheDir(root)
    /\ \E p \in DOMAIN fs0 :
          /\ TouchedOnly(p) /\ ~ InPrunedDir(p)
          /\ fs[p].mtime < fs0[p].mtime
          /\ fs[p].mtime = Before.data[p].mtime

\* C19: no run, dry or not, successful or aborted, moves an mtime forward:
\* at every point of a run every file has at most the mtime it had when the
\* run started, and a file whose mtime the run has set has an mtime strictly
\* lower than the one in the live snapshot, and nothing else of it changed.
C19_NeverForward ==
    (pc # "idle") =>
        \A p \in DOMAIN fs :
            /\ fs[p].mtime <= fs0[p].mtime
            /\ fs[p] # fs0[p] =>
                  /\ p \in DOMAIN live.data
                  /\ fs[p].mtime < live.data[p].mtime
                  /\ fs[p].content = fs0[p].content

\* A run that set the mtime of one file back and left alone a file whose
\* content changed with a later mtime.
C19_Witness ==
    /\ Ended /\ ~ dry /\ stored # NoData
    /\ \E p \in DOMAIN live.data : fs[p].mtime < live.data[p].mtime
    /\ \E p \in DOMAIN live.data \cap DOMAIN stored.data :
          /\ live.data[p].mtime > stored.data[p].mtime
          /\ fs[p] = fs0[p]

\* A successful run, not dry, that started from what the remembered aborted
\* run left.
Recovered ==
    /\ Succeeded /\ ~ dry
    /\ crash.valid
    /\ fs0 = crash.left
    /\ hp0 = crash.hp

\* C20: when a run that is not dry aborted in its loop, leaving the state
\* file as it was, and the next run, not dry and without an error, starts
\* from the files the aborted run left and the same state file, then the
\* mtimes on disk and the persisted snapshot after it are those that a run
\* without an error from the start of the aborted run produces, whatever the
\* order of its loop.
C20_Recovery ==
    Recovered =>
        \A order \in Orders(DOMAIN load_cached(root, crash.hp).cached.data) :
            /\ fs = Uninterrupted(root, crash.start, crash.hp, order).fs
            /\ hashprint = Uninterrupted(root, crash.start, crash.hp, order).hp

\* The aborted run had rewound one file and not another one; the next run
\* rewound the other one.
C20_Witness ==
    /\ Recovered
    /\ \E p \in DOMAIN fs : crash.left[p].mtime < crash.start[p].mtime
    /\ \E p \in DOMAIN fs :
          /\ crash.left[p] = crash.start[p]
          /\ fs[p].mtime < crash.left[p].mtime

====
